---- MODULE Spec2Model ----
(***************************************************************************)
(* Model of the chat relay of src/server.js (latest revision, lines        *)
(* 178-403; src/unnamed/part_000 is the same program without the admin     *)
(* routes): the socket.io authentication gate, the connection handler with *)
(* its message fan-out, the debounced disconnect handler, the presence     *)
(* broadcaster broadcastUserCounts and the /signup, /signin and            *)
(* /admin/delete-users routes on top of the User collection with its       *)
(* unique username index. Lines 1-176 of                                   *)
(* src/server.js hold an earlier revision of the same program, whose        *)
(* disconnect handler calls broadcastUserCounts() without a timer.          *)
(***************************************************************************)
EXTENDS Integers, Sequences, FiniteSets, TLC

\* ------------------------------------------------------------------ bounds

\* Transport connections the clients may open (A, B, C of the scenarios).
Conns == {"A", "B", "C"}

\* Concurrent /signup requests in flight.
Reqs == {"r1", "r2"}

\* Concurrent /signin requests in flight.
SigninReqs == {"s1", "s2"}

\* /admin/delete-users requests in flight.
DeleteReqs == {"k1"}

\* Every HTTP request of a run.
Requests == Reqs \cup SigninReqs \cup DeleteReqs

\* send_message / send_image events the clients emit in one run.
MaxSends == 1

\* Granularity of the clock that drives the disconnect timers (ms).
TickMs == 500

\* setTimeout(broadcastUserCounts, 1000)
DelayMs == 1000

\* The JS value undefined: handshake.auth carries no token field.
Undefined == "<undefined>"

\* Values a client may put in handshake.auth.token.
TokenInputs == {Undefined, "", "alice"}

\* Payloads of send_message / send_image (opaque to the server).
Payloads == {"d1", "d2"}

\* Values of req.body.username / req.body.final_hash of a /signup request.
UsernameInputs == {"", "alice", "bob"}
HashInputs == {"", "h1", "h2"}

\* Values of req.body.usernames of a /admin/delete-users request: array tells
\* whether the field is an array, names holds its elements.
UsernamesInputs ==
    {[array |-> FALSE, names |-> {}]}
        \cup {[array |-> TRUE, names |-> S] : S \in SUBSET {"alice", "bob"}}

\* The User collection the server starts on: alice signed up in an earlier run.
InitialDirectory == {[id |-> "r0", username |-> "alice", finalHash |-> "h1"]}

\* One broadcastUserCounts() call per triggering event.
Triggers ==
    ({"connect", "disconnect"} \X Conns) \cup ({"signup"} \X Reqs)
        \cup ({"delete"} \X DeleteReqs)

VARIABLES
    phase,          \* per connection: "None", "Pending", "Admitted", "Closed"
    token,          \* per connection: socket.handshake.auth.token
    engine,         \* per connection: its engine.io transport is open
    clientsCount,   \* io.engine.clientsCount
    sockets,        \* the sockets connected to the namespace (io.emit's targets)
    connErr,        \* per connection: the connect_error it was sent, or ""
    inbox,          \* per connection: the events the server sent it, in order
    sends,          \* the send_message / send_image events handled, in order
    timer,          \* per connection: the setTimeout of its disconnect handler
    bc,             \* per trigger: the state of its broadcastUserCounts() call
    db,             \* the User collection: documents {id, username, finalHash}
    pc,             \* per HTTP request: where its handler is
    body,           \* per HTTP request: req.body
    resp            \* per HTTP request: the response sent

vars == <<phase, token, engine, clientsCount, sockets, connErr, inbox, sends,
          timer, bc, db, pc, body, resp>>

connVars == <<phase, token, engine, clientsCount, sockets, connErr>>
signupVars == <<db, pc, body, resp>>

\* ----------------------------------------------------------------- helpers

\* JS truthiness of a string-or-undefined value: `!x`.
Falsy(x) == x = Undefined \/ x = ""

Min(a, b) == IF a < b THEN a ELSE b

NoResp == [status |-> 0, success |-> FALSE, msg |-> "", error |-> ""]

\* A broadcastUserCounts() call: st is where it is ("idle": not made, "query":
\* awaiting countDocuments, "result": answered, "emitted", "failed"), registered
\* the count it was given, error whether countDocuments rejected.
IdleCall == [st |-> "idle", registered |-> 0, error |-> FALSE]

\* An emit to every socket that ever connected, disconnected ones included.
IoEmitToEverConnected(box, ev) ==
    [c \in Conns |->
        IF c \in sockets \/ phase[c] = "Closed" THEN Append(box[c], ev) ELSE box[c]]

\* io.emit(event, payload): to every socket connected to the namespace.
IoEmit(box, ev) ==
    [c \in Conns |-> IF c \in sockets THEN Append(box[c], ev) ELSE box[c]]

\* A fan-out that forgets to exclude the sender (io.emit in the handler).
BroadcastEmitToAll(box, sender, ev) ==
    [c \in Conns |-> IF c \in sockets THEN Append(box[c], ev) ELSE box[c]]

\* socket.broadcast.emit(event, payload): every connected socket but the sender.
BroadcastEmit(box, sender, ev) ==
    [c \in Conns |-> IF c \in sockets \ {sender} THEN Append(box[c], ev) ELSE box[c]]

\* broadcastUserCounts() up to its first await: the count query is issued.
StartBroadcast(calls, t) ==
    [calls EXCEPT ![t] = [st |-> "query", registered |-> 0, error |-> FALSE]]

\* A collection without the unique index: every insert is accepted.
NoUniqueIndex(coll, username) == FALSE

\* The unique index on username: an insert of a second document with the
\* same username is rejected (E11000).
DuplicateKey(coll, username) == \E d \in coll : d.username = username

\* ------------------------------------------------------------------- Init

Init ==
    /\ phase = [c \in Conns |-> "None"]
    /\ token = [c \in Conns |-> Undefined]
    /\ engine = [c \in Conns |-> FALSE]
    /\ clientsCount = 0
    /\ sockets = {}
    /\ connErr = [c \in Conns |-> ""]
    /\ inbox = [c \in Conns |-> <<>>]
    /\ sends = <<>>
    /\ timer = [c \in Conns |-> [st |-> "none", elapsed |-> 0]]
    /\ bc = [t \in Triggers |-> IdleCall]
    /\ db = InitialDirectory
    /\ pc = [r \in Requests |-> "idle"]
    /\ body = [r \in Requests |->
                 IF r \in DeleteReqs
                 THEN [usernames |-> [array |-> FALSE, names |-> {}]]
                 ELSE [username |-> "", final_hash |-> ""]]
    /\ resp = [r \in Requests |-> NoResp]

\* ------------------------------------------------------------ connections

\* A client opens a transport connection and sends its CONNECT packet with
\* handshake.auth.token = tok. io.engine is the transport layer under the
\* namespace: it counts a client in clientsCount from the transport handshake
\* on, before the io.use gate has seen the CONNECT packet, until the transport
\* closes.
Open(c, tok) ==
    /\ phase[c] = "None"
    /\ phase' = [phase EXCEPT ![c] = "Pending"]
    /\ token' = [token EXCEPT ![c] = tok]
    /\ engine' = [engine EXCEPT ![c] = TRUE]
    /\ clientsCount' = clientsCount + 1
    /\ UNCHANGED <<sockets, connErr, inbox, sends, timer, bc, signupVars>>

\* A gate that only rejects an absent token (token === undefined).
AuthGateUndefinedOnly(tok) == IF tok = Undefined THEN "NO_TOKEN" ELSE ""

\* A gate that looks the token up in the User collection.
AuthGateChecksDirectory(tok) ==
    IF Falsy(tok) \/ (\A d \in db : d.username # tok) THEN "NO_TOKEN" ELSE ""

\* io.use((socket, next) => ...): the error the gate passes to next, or "".
AuthGate(tok) == IF Falsy(tok) THEN "NO_TOKEN" ELSE ""

\* A handler that awaits the presence counts before it lets the socket in.
ConnectAfterCounts(c) ==
    /\ phase[c] = "Pending"
    /\ engine[c]
    /\ \A t \in Triggers : bc[t].st \notin {"query", "failed"}
    /\ IF Falsy(token[c])
       THEN /\ connErr' = [connErr EXCEPT ![c] = "NO_TOKEN"]
            /\ phase' = [phase EXCEPT ![c] = "Closed"]
            /\ UNCHANGED <<sockets, bc>>
       ELSE /\ phase' = [phase EXCEPT ![c] = "Admitted"]
            /\ sockets' = sockets \cup {c}
            /\ bc' = [bc EXCEPT ![<<"connect", c>>] =
                         [st |-> "query", registered |-> 0, error |-> FALSE]]
            /\ UNCHANGED connErr
    /\ UNCHANGED <<token, engine, clientsCount, inbox, sends, timer, signupVars>>

\* The CONNECT packet of c is handled: the gate runs and, when it passes,
\* the socket joins the namespace and the connection handler runs. A rejected
\* client is sent the error; its transport stays open until it is closed.
Connect(c) ==
    /\ phase[c] = "Pending"
    /\ engine[c]
    /\ IF AuthGate(token[c]) # ""
       THEN /\ connErr' = [connErr EXCEPT ![c] = AuthGate(token[c])]
            /\ phase' = [phase EXCEPT ![c] = "Closed"]
            /\ UNCHANGED <<sockets, bc>>
       ELSE /\ phase' = [phase EXCEPT ![c] = "Admitted"]
            /\ sockets' = sockets \cup {c}
            /\ bc' = StartBroadcast(bc, <<"connect", c>>)
            /\ UNCHANGED connErr
    /\ UNCHANGED <<token, engine, clientsCount, inbox, sends, timer, signupVars>>

\* socket.on("send_message" / "send_image", data => socket.broadcast.emit(...))
ReceiveEvent(kind) == IF kind = "send_message" THEN "receive_message" ELSE "receive_image"

Send(c, kind, data) ==
    /\ c \in sockets
    /\ Len(sends) < MaxSends
    /\ sends' = Append(sends, [conn |-> c, event |-> kind, data |-> data])
    /\ inbox' = BroadcastEmit(inbox, c, [event |-> ReceiveEvent(kind), data |-> data])
    /\ UNCHANGED <<connVars, timer, bc, signupVars>>

\* A debounce that coalesces: no new timer while another one is pending.
OnDisconnectCoalesced(timers, c) ==
    IF \E d \in Conns : timers[d].st = "armed"
    THEN timers
    ELSE [timers EXCEPT ![c] = [st |-> "armed", elapsed |-> 0]]

\* socket.on("disconnect", () => setTimeout(broadcastUserCounts, 1000))
OnDisconnect(timers, c) == [timers EXCEPT ![c] = [st |-> "armed", elapsed |-> 0]]

\* The transport of c closes (the client leaves, the network fails, or a
\* rejected client gives up): the engine stops counting it; a socket that had
\* joined the namespace leaves it and its disconnect handler runs.
Close(c) ==
    /\ engine[c]
    /\ engine' = [engine EXCEPT ![c] = FALSE]
    /\ clientsCount' = clientsCount - 1
    /\ phase' = [phase EXCEPT ![c] = "Closed"]
    /\ sockets' = sockets \ {c}
    /\ timer' = IF c \in sockets THEN OnDisconnect(timer, c) ELSE timer
    /\ UNCHANGED <<token, connErr, inbox, sends, bc, signupVars>>

\* ------------------------------------------------------------------ timers

\* Time passes for the armed timers.
Tick ==
    /\ \E c \in Conns : timer[c].st = "armed" /\ timer[c].elapsed < DelayMs
    /\ timer' = [c \in Conns |->
                   IF timer[c].st = "armed"
                   THEN [timer[c] EXCEPT !.elapsed = Min(@ + TickMs, DelayMs)]
                   ELSE timer[c]]
    /\ UNCHANGED <<connVars, inbox, sends, bc, signupVars>>

\* No delay: the disconnect handler of the first revision, which calls
\* broadcastUserCounts() itself.
TimerDueAtOnce(t) == t.st = "armed"

\* A timer may run its callback once its delay has elapsed.
TimerDue(t) == t.st = "armed" /\ t.elapsed >= DelayMs

TimerFire(c) ==
    /\ TimerDue(timer[c])
    /\ timer' = [timer EXCEPT ![c].st = "fired"]
    /\ bc' = StartBroadcast(bc, <<"disconnect", c>>)
    /\ UNCHANGED <<connVars, inbox, sends, signupVars>>

\* ------------------------------------------------------ broadcastUserCounts

\* The directory answers User.countDocuments().
CountEval(t) ==
    /\ bc[t].st = "query"
    /\ bc' = [bc EXCEPT ![t] = [@ EXCEPT !.st = "result", !.registered = Cardinality(db)]]
    /\ UNCHANGED <<connVars, inbox, sends, timer, signupVars>>

\* A catch block that goes on to emit with the count it has (0).
OnCountErrorEmit(call) == [call EXCEPT !.st = "result"]

\* catch (err) { console.error("Broadcast Error:", err) }
OnCountError(call) == [call EXCEPT !.st = "failed"]

\* User.countDocuments() rejects: the catch block logs and the call ends.
CountFail(t) ==
    /\ bc[t].st = "query"
    /\ bc' = [bc EXCEPT ![t] = OnCountError([@ EXCEPT !.error = TRUE])]
    /\ UNCHANGED <<connVars, inbox, sends, timer, signupVars>>

\* const online = io.engine.clientsCount: the open transports, not the
\* sockets that joined the namespace.
Online == clientsCount

\* The await resumes: online is read and user_counts goes to every socket.
CountReturn(t) ==
    /\ bc[t].st = "result"
    /\ bc' = [bc EXCEPT ![t].st = "emitted"]
    /\ inbox' = IoEmit(inbox, [event |-> "user_counts",
                               registered |-> bc[t].registered,
                               online |-> Online])
    /\ UNCHANGED <<connVars, sends, timer, signupVars>>

\* ------------------------------------------------------------------ /signup

\* res.status(status).json({ success, msg, error }); error is err.message.
Reply(status, success, msg, error) ==
    [status |-> status, success |-> success, msg |-> msg, error |-> error]

\* err.message of the errors save() and findOne() reject with.
E11000 == "E11000 duplicate key error"
Unavailable == "directory unavailable"

\* The request arrives: the body is validated and User.findOne is issued.
SignupRecv(r, username, final_hash) ==
    /\ pc[r] = "idle"
    /\ body' = [body EXCEPT ![r] = [username |-> username, final_hash |-> final_hash]]
    /\ IF Falsy(username) \/ Falsy(final_hash)
       THEN /\ resp' = [resp EXCEPT ![r] = Reply(400, FALSE, "Missing username or hash", "")]
            /\ pc' = [pc EXCEPT ![r] = "done"]
       ELSE /\ pc' = [pc EXCEPT ![r] = "findOne"]
            /\ UNCHANGED resp
    /\ UNCHANGED <<connVars, inbox, sends, timer, bc, db>>

\* User.findOne({ username }) answers.
SignupFound(r) ==
    /\ pc[r] = "findOne"
    /\ IF \E d \in db : d.username = body[r].username
       THEN /\ resp' = [resp EXCEPT ![r] = Reply(409, FALSE, "Username already exists", "")]
            /\ pc' = [pc EXCEPT ![r] = "done"]
       ELSE /\ pc' = [pc EXCEPT ![r] = "save"]
            /\ UNCHANGED resp
    /\ UNCHANGED <<connVars, inbox, sends, timer, bc, db, body>>

\* A handler that calls broadcastUserCounts() whatever save() answered.
SignupSavedAlwaysBroadcasts(r) ==
    /\ pc[r] = "save"
    /\ pc' = [pc EXCEPT ![r] = "done"]
    /\ bc' = StartBroadcast(bc, <<"signup", r>>)
    /\ IF DuplicateKey(db, body[r].username)
       THEN /\ resp' = [resp EXCEPT ![r] = Reply(500, FALSE, "Signup failed", E11000)]
            /\ UNCHANGED db
       ELSE /\ db' = db \cup {[id |-> r, username |-> body[r].username,
                               finalHash |-> body[r].final_hash]}
            /\ resp' = [resp EXCEPT ![r] = Reply(200, TRUE, "User created", "")]
    /\ UNCHANGED <<connVars, inbox, sends, timer, body>>

\* newUser.save() answers: the insert is applied, or rejected by the unique
\* index, in which case save() throws into the catch block.
SignupSaved(r) ==
    /\ pc[r] = "save"
    /\ pc' = [pc EXCEPT ![r] = "done"]
    /\ IF DuplicateKey(db, body[r].username)
       THEN /\ resp' = [resp EXCEPT ![r] = Reply(500, FALSE, "Signup failed", E11000)]
            /\ UNCHANGED <<db, bc>>
       ELSE /\ db' = db \cup {[id |-> r, username |-> body[r].username,
                               finalHash |-> body[r].final_hash]}
            /\ bc' = StartBroadcast(bc, <<"signup", r>>)
            /\ resp' = [resp EXCEPT ![r] = Reply(200, TRUE, "User created", "")]
    /\ UNCHANGED <<connVars, inbox, sends, timer, body>>

\* findOne or save rejects for another reason (the directory is unavailable).
SignupDbError(r) ==
    /\ pc[r] \in {"findOne", "save"}
    /\ pc' = [pc EXCEPT ![r] = "done"]
    /\ resp' = [resp EXCEPT ![r] = Reply(500, FALSE, "Signup failed", Unavailable)]
    /\ UNCHANGED <<connVars, inbox, sends, timer, bc, db, body>>

\* ------------------------------------------------------------------ /signin

\* res.json({ success: true, msg: "Signed in", username: user.username })
SignedIn(user) ==
    [status |-> 200, success |-> TRUE, msg |-> "Signed in", error |-> "",
     username |-> user.username]

\* A sign-in that looks the username up first and compares the hash second,
\* with an answer of its own for each miss.
SigninByUsernameThenHash(coll, username, final_hash) ==
    LET users == {d \in coll : d.username = username} IN
    IF users = {}
    THEN Reply(404, FALSE, "User not found", "")
    ELSE IF \E d \in users : d.finalHash = final_hash
         THEN SignedIn(CHOOSE d \in users : d.finalHash = final_hash)
         ELSE Reply(401, FALSE, "Invalid username or password", "")

\* What the handler answers once User.findOne({ username, finalHash }) has
\* answered over the collection coll: one query on both fields, one answer
\* for a miss.
SigninOutcome(coll, username, final_hash) ==
    LET users == {d \in coll : d.username = username /\ d.finalHash = final_hash} IN
    IF users = {}
    THEN Reply(401, FALSE, "Invalid username or password", "")
    ELSE SignedIn(CHOOSE d \in users : TRUE)

\* The request arrives: the body is validated and User.findOne is issued.
SigninRecv(s, username, final_hash) ==
    /\ pc[s] = "idle"
    /\ body' = [body EXCEPT ![s] = [username |-> username, final_hash |-> final_hash]]
    /\ IF Falsy(username) \/ Falsy(final_hash)
       THEN /\ resp' = [resp EXCEPT ![s] = Reply(400, FALSE, "Missing username or hash", "")]
            /\ pc' = [pc EXCEPT ![s] = "done"]
       ELSE /\ pc' = [pc EXCEPT ![s] = "findOne"]
            /\ UNCHANGED resp
    /\ UNCHANGED <<connVars, inbox, sends, timer, bc, db>>

\* User.findOne({ username, finalHash: final_hash }) answers.
SigninFound(s) ==
    /\ pc[s] = "findOne"
    /\ pc' = [pc EXCEPT ![s] = "done"]
    /\ resp' = [resp EXCEPT ![s] =
                  SigninOutcome(db, body[s].username, body[s].final_hash)]
    /\ UNCHANGED <<connVars, inbox, sends, timer, bc, db, body>>

\* findOne rejects (the directory is unavailable).
SigninDbError(s) ==
    /\ pc[s] = "findOne"
    /\ pc' = [pc EXCEPT ![s] = "done"]
    /\ resp' = [resp EXCEPT ![s] = Reply(500, FALSE, "Signin failed", Unavailable)]
    /\ UNCHANGED <<connVars, inbox, sends, timer, bc, db, body>>

\* ------------------------------------------------------- /admin/delete-users

\* res.json({ success: true, msg: `${deletedCount} users deleted successfully` })
Deleted(deletedCount) ==
    [status |-> 200, success |-> TRUE, msg |-> "users deleted successfully",
     error |-> "", deletedCount |-> deletedCount]

\* A deleteMany whose filter matches every document.
DeleteManyUnfiltered(coll, names) == coll

\* The documents User.deleteMany({ username: { $in: names } }) deletes.
DeleteMany(coll, names) == {d \in coll : d.username \in names}

\* The request arrives: the body is validated and User.deleteMany is issued.
DeleteRecv(k, usernames) ==
    /\ pc[k] = "idle"
    /\ body' = [body EXCEPT ![k] = [usernames |-> usernames]]
    /\ IF ~usernames.array \/ usernames.names = {}
       THEN /\ resp' = [resp EXCEPT ![k] =
                         Reply(400, FALSE, "Missing or invalid list of usernames", "")]
            /\ pc' = [pc EXCEPT ![k] = "done"]
       ELSE /\ pc' = [pc EXCEPT ![k] = "deleteMany"]
            /\ UNCHANGED resp
    /\ UNCHANGED <<connVars, inbox, sends, timer, bc, db>>

\* A handler that answers a deletion without calling broadcastUserCounts().
DeleteAnsweredWithoutBroadcast(k) ==
    /\ pc[k] = "deleteMany"
    /\ pc' = [pc EXCEPT ![k] = "done"]
    /\ LET deleted == DeleteMany(db, body[k].usernames.names)
           deletedCount == Cardinality(deleted)
       IN  /\ db' = db \ deleted
           /\ resp' = [resp EXCEPT ![k] =
                         IF deletedCount > 0
                         THEN Deleted(deletedCount)
                         ELSE Reply(404, FALSE, "No users found or deleted", "")]
    /\ UNCHANGED <<connVars, inbox, sends, timer, bc, body>>

\* deleteMany answers with result.deletedCount: a positive count calls
\* broadcastUserCounts() and answers 200, a zero count answers 404.
DeleteAnswered(k) ==
    /\ pc[k] = "deleteMany"
    /\ pc' = [pc EXCEPT ![k] = "done"]
    /\ LET deleted == DeleteMany(db, body[k].usernames.names)
           deletedCount == Cardinality(deleted)
       IN  /\ db' = db \ deleted
           /\ IF deletedCount > 0
              THEN /\ bc' = StartBroadcast(bc, <<"delete", k>>)
                   /\ resp' = [resp EXCEPT ![k] = Deleted(deletedCount)]
              ELSE /\ resp' = [resp EXCEPT ![k] =
                                Reply(404, FALSE, "No users found or deleted", "")]
                   /\ UNCHANGED bc
    /\ UNCHANGED <<connVars, inbox, sends, timer, body>>

\* deleteMany rejects (the directory is unavailable).
DeleteDbError(k) ==
    /\ pc[k] = "deleteMany"
    /\ pc' = [pc EXCEPT ![k] = "done"]
    /\ resp' = [resp EXCEPT ![k] = Reply(500, FALSE, "User deletion failed", Unavailable)]
    /\ UNCHANGED <<connVars, inbox, sends, timer, bc, db, body>>

\* ------------------------------------------------------------ specifications

\* The relay and the presence broadcaster over the connections CS.
Relay(CS) ==
    \/ \E c \in CS, tok \in TokenInputs : Open(c, tok)
    \/ \E c \in CS : Connect(c)
    \/ \E c \in CS : Close(c)
    \/ \E t \in Triggers : CountEval(t)
    \/ \E t \in Triggers : CountReturn(t)

Chat(CS) ==
    \E c \in CS, kind \in {"send_message", "send_image"}, data \in Payloads :
        Send(c, kind, data)

Timers ==
    \/ Tick
    \/ \E c \in Conns : TimerFire(c)

Outage == \E t \in Triggers : CountFail(t)

\* The /signup requests RS.
SignupBy(RS) ==
    \/ \E r \in RS, u \in UsernameInputs, h \in HashInputs : SignupRecv(r, u, h)
    \/ \E r \in RS : SignupFound(r)
    \/ \E r \in RS : SignupSaved(r)
    \/ \E r \in RS : SignupDbError(r)

Signup == SignupBy(Reqs)

\* The /signin requests SS.
Signin(SS) ==
    \/ \E s \in SS, u \in UsernameInputs, h \in HashInputs : SigninRecv(s, u, h)
    \/ \E s \in SS : SigninFound(s)
    \/ \E s \in SS : SigninDbError(s)

\* The /admin/delete-users requests.
Delete ==
    \/ \E k \in DeleteReqs, us \in UsernamesInputs : DeleteRecv(k, us)
    \/ \E k \in DeleteReqs : DeleteAnswered(k)
    \/ \E k \in DeleteReqs : DeleteDbError(k)

\* The presence broadcaster alone: each call's count query and its outcome.
Broadcasts ==
    \/ \E t \in Triggers : CountEval(t)
    \/ \E t \in Triggers : CountReturn(t)
    \/ \E t \in Triggers : CountFail(t)

\* Two connections, messages, timers and directory outages.
Next == Relay({"A", "B"}) \/ Chat({"A", "B"}) \/ Timers \/ Outage

Spec == Init /\ [][Next]_vars

\* The same without messages, under the scheduling the runtime gives: time
\* passes, a due timer runs its callback, the directory answers every count
\* query (with a count or an error) and a settled await resumes.
NextLive == Relay({"A", "B"}) \/ Timers \/ Outage

Fairness ==
    /\ WF_vars(Tick)
    /\ \A c \in Conns : WF_vars(TimerFire(c))
    /\ \A t \in Triggers : WF_vars(CountEval(t) \/ CountFail(t))
    /\ \A t \in Triggers : WF_vars(CountReturn(t))

SpecLive == Init /\ [][NextLive]_vars /\ Fairness

\* Three connections exchanging messages within the time the directory takes
\* to answer the first count query: every broadcast is still in flight.
NextChat ==
    \/ \E c \in Conns, tok \in TokenInputs : Open(c, tok)
    \/ \E c \in Conns : Connect(c)
    \/ \E c \in Conns : Close(c)
    \/ Chat(Conns)

SpecChat == Init /\ [][NextChat]_vars

\* Concurrent signups beside one connection.
NextSignup == Signup \/ Relay({"A"}) \/ Timers \/ Outage

SpecSignup == Init /\ [][NextSignup]_vars

\* Sign-ins beside a deletion: the directory changes under the lookups.
NextDirectory == Signin(SigninReqs) \/ Delete \/ Broadcasts

SpecDirectory == Init /\ [][NextDirectory]_vars

\* Concurrent signups beside a sign-in.
NextAuth == Signup \/ Signin({"s1"}) \/ Broadcasts

SpecAuth == Init /\ [][NextAuth]_vars

\* A signup and a deletion beside one connection.
NextAdmin == SignupBy({"r1"}) \/ Delete \/ Relay({"A"}) \/ Outage

SpecAdmin == Init /\ [][NextAdmin]_vars

\* The same under the scheduling the runtime gives the broadcaster: the
\* directory answers every count query and a settled await resumes.
Answering ==
    /\ \A t \in Triggers : WF_vars(CountEval(t) \/ CountFail(t))
    /\ \A t \in Triggers : WF_vars(CountReturn(t))

SpecAdminLive == Init /\ [][NextAdmin]_vars /\ Answering

\* A deletion beside two connections exchanging messages.
NextRevoke == Relay({"A", "B"}) \/ Chat({"A", "B"}) \/ Delete

SpecRevoke == Init /\ [][NextRevoke]_vars

\* ------------------------------------------------------------------ claims

Admitted == {c \in Conns : phase[c] = "Admitted"}

MessageEvents == {"receive_message", "receive_image"}

\* The events of one kind in an inbox.
Received(c, kinds) == {i \in 1..Len(inbox[c]) : inbox[c][i].event \in kinds}

\* The outbound event a handled inbound event must be forwarded as.
Forwarded(e) ==
    [event |-> IF e.event = "send_message" THEN "receive_message" ELSE "receive_image",
     data |-> e.data]

\* A step that handles one more inbound event delivers it, verbatim and once,
\* to every connection Admitted at that moment but its sender, and to nobody
\* else.
FanOutStep ==
    Len(sends') = Len(sends) + 1 =>
        LET e == sends'[Len(sends')] IN
        /\ phase[e.conn] = "Admitted"
        /\ \A c \in Conns :
              inbox'[c] = IF phase[c] = "Admitted" /\ c # e.conn
                          THEN Append(inbox[c], Forwarded(e))
                          ELSE inbox[c]

\* C1: a send_message (send_image) event from an Admitted connection A is
\* delivered as receive_message (receive_image) to every other connection
\* that is Admitted at that moment, and never to A itself.
C1_SenderExcludedFanOut == [][FanOutStep]_vars

\* A sent while A, B and C were all connected: B and C hold the event, A holds
\* no message event.
C1_Witness ==
    /\ Len(sends) = 1
    /\ sends[1].conn = "A"
    /\ sockets = Conns
    /\ Received("A", MessageEvents) = {}
    /\ \A c \in {"B", "C"} :
          \E i \in Received(c, MessageEvents) : inbox[c][i] = Forwarded(sends[1])

\* C2: a connection whose token is empty or missing is never admitted, never
\* enters the registry and never receives an event; once the gate has handled
\* it, it is Closed and was sent NO_TOKEN.
C2_NoTokenNeverAdmitted ==
    \A c \in Conns :
        (phase[c] # "None" /\ Falsy(token[c])) =>
            /\ phase[c] \in {"Pending", "Closed"}
            /\ c \notin sockets
            /\ inbox[c] = <<>>
            /\ bc[<<"connect", c>>].st = "idle"
            /\ (phase[c] = "Closed" /\ engine[c]) => connErr[c] = "NO_TOKEN"

\* A connection with an empty token was rejected while another connection was
\* admitted and has received events.
C2_Witness ==
    \E c, d \in Conns :
        /\ token[c] = "" /\ connErr[c] = "NO_TOKEN" /\ phase[c] = "Closed"
        /\ phase[d] = "Admitted"
        /\ Received(d, {"user_counts"}) # {}

\* C3: once every connection attempt has been settled by the gate, the value
\* the broadcaster reads as online equals the number of connections that are
\* Admitted and not yet Closed (so it counts no rejected connection).
C3_OnlineIsAdmittedCount ==
    (\A c \in Conns : phase[c] # "Pending") => Online = Cardinality(Admitted)

\* Requests answered with success.
Succeeded == {r \in Reqs : pc[r] = "done" /\ resp[r].success}

\* C4: of the signup attempts for one username at most one reports success,
\* whatever their interleaving, and the directory never holds two records
\* with the same username.
C4_AtMostOneSignupSucceeds ==
    /\ \A d1, d2 \in db : d1.username = d2.username => d1 = d2
    /\ \A r1, r2 \in Succeeded : body[r1].username = body[r2].username => r1 = r2
    /\ \A r \in Succeeded :
          \E d \in db : d.id = r /\ d.username = body[r].username
                                 /\ d.finalHash = body[r].final_hash

\* Both requests asked for bob, both saw no record and went on to save: one
\* succeeded, the other was rejected by the unique index.
C4_Witness ==
    /\ body["r1"].username = "bob" /\ body["r2"].username = "bob"
    /\ body["r1"].final_hash # body["r2"].final_hash
    /\ Cardinality(Succeeded) = 1
    /\ \E r \in Reqs : pc[r] = "done" /\ resp[r].error = E11000

\* The DuplicateUsername outcome of /signup.
DuplicateUsername == Reply(409, FALSE, "Username already exists", "")

\* A request turned down because its username is taken: its findOne found a
\* record, or its insert was rejected by the unique index.
TurnedDownAsDuplicate(r) ==
    /\ pc[r] = "done"
    /\ ~resp[r].success
    /\ ~Falsy(body[r].username) /\ ~Falsy(body[r].final_hash)
    /\ resp[r].error # Unavailable

\* C5: a signup for a username already stored, and a signup that loses the
\* check-then-insert race, are both answered with DuplicateUsername.
C5_DuplicateOutcomeIsUniform ==
    \A r \in Reqs : TurnedDownAsDuplicate(r) => resp[r] = DuplicateUsername

C7_ConnectBroadcastCarriesAdmittedCount ==
    [][\A c \in Conns :
          (/\ bc[<<"connect", c>>].st = "result"
           /\ bc'[<<"connect", c>>].st = "emitted"
           /\ \A e \in Conns : phase[e] # "Pending") =>
              \A d \in Admitted :
                  /\ Len(inbox'[d]) = Len(inbox[d]) + 1
                  /\ inbox'[d][Len(inbox'[d])].event = "user_counts"
                  /\ inbox'[d][Len(inbox'[d])].online = Cardinality(Admitted)]_vars

\* A connection that was Admitted and has disconnected.
Disconnected(c) == phase[c] = "Closed" /\ bc[<<"connect", c>>].st # "idle"

\* C8: every disconnect of an Admitted connection leads to a broadcast attempt
\* of its own, which eventually emits user_counts or fails silently, however
\* many disconnects fall into one debounce window.
C8_EveryDisconnectBroadcasts ==
    \A c \in Conns :
        Disconnected(c) ~> (bc[<<"disconnect", c>>].st \in {"emitted", "failed"})

\* Two disconnects inside one debounce window: the attempt of the first has
\* emitted while the timer of the second is still running.
C8_Witness ==
    \E c, d \in Conns :
        /\ Disconnected(c) /\ bc[<<"disconnect", c>>].st = "emitted"
        /\ Disconnected(d) /\ timer[d].st = "armed"
        /\ timer[d].elapsed > 0 /\ timer[d].elapsed < DelayMs

\* C9: when the count query of a broadcast fails, the step that handles the
\* failure emits nothing and touches nothing but that call, the call ends as
\* failed and is never resumed: it emits no user_counts and issues no second
\* query.
C9_FailedCountSkipsBroadcast ==
    [][/\ \A t \in Triggers : bc'[t].error => bc'[t].st = "failed"
       /\ \A t \in Triggers :
             (~bc[t].error /\ bc'[t].error) =>
                 /\ inbox' = inbox
                 /\ UNCHANGED <<connVars, sends, timer, signupVars>>
                 /\ \A u \in Triggers \ {t} : bc'[u] = bc[u]]_vars

\* The count query of A's admission failed, so A holds exactly one
\* user_counts event: the one B's admission triggered.
C9_Witness ==
    /\ bc[<<"connect", "A">>].st = "failed"
    /\ bc[<<"connect", "B">>].st = "emitted"
    /\ bc[<<"disconnect", "A">>].st = "idle" /\ bc[<<"disconnect", "B">>].st = "idle"
    /\ Cardinality(Received("A", {"user_counts"})) = 1

\* Broadcasts whose count query failed.
FailedCalls == {t \in Triggers : bc[t].st = "failed"}

\* A step in which the gate settles a connection that carries a token admits
\* it into the registry.
AdmissionStep ==
    \A c \in Conns :
        (phase[c] = "Pending" /\ ~Falsy(token[c]) /\ phase'[c] # "Pending" /\ engine'[c]) =>
            phase'[c] = "Admitted" /\ c \in sockets'

\* C10: whatever the broadcasts do (succeed, fail, stay in flight), a pending
\* connection can always be settled by the gate, one that carries a token is
\* then admitted, every handled send is delivered to all other Admitted
\* connections, and a step of a broadcast changes no connection, no registry
\* entry and no message event.
C10_PresenceNeverBlocksRelay ==
    [][/\ \A c \in Conns : (phase'[c] = "Pending" /\ engine'[c]) => (ENABLED Connect(c))'
       /\ AdmissionStep
       /\ FanOutStep
       /\ (\E t \in Triggers : bc'[t] # bc[t] /\ bc[t].st # "idle") =>
              /\ UNCHANGED <<connVars, sends>>
              /\ \A c \in Conns :
                    Received(c, MessageEvents) = {i \in 1..Len(inbox'[c]) :
                                                    inbox'[c][i].event \in MessageEvents}]_vars

\* B was admitted and received A's message while B's own count query was
\* still unanswered and the broadcast of A's admission had failed.
C10_Witness ==
    /\ <<"connect", "A">> \in FailedCalls
    /\ bc[<<"connect", "B">>].st = "query"
    /\ phase["B"] = "Admitted"
    /\ Len(sends) = 1 /\ sends[1].conn = "A"
    /\ inbox["B"] = <<Forwarded(sends[1])>>

\* The step in which request r's handler sends its response.
Answers(r) == pc[r] # "done" /\ pc'[r] = "done"

\* The lookup of sign-in s answers (with a hit or a miss, not an error).
SigninAnswers(s) ==
    pc[s] = "findOne" /\ Answers(s) /\ resp'[s].status # 500

\* No record carries the username of request r.
UnknownUser(r) == \A d \in db : d.username # body[r].username

\* A record carries the username of request r, none with the hash of r.
WrongHash(r) ==
    /\ \E d \in db : d.username = body[r].username
    /\ \A d \in db : d.username = body[r].username => d.finalHash # body[r].final_hash

InvalidCredential == Reply(401, FALSE, "Invalid username or password", "")

\* C11: a sign-in for a username that does not exist and a sign-in for a
\* username that exists with a different hash are answered with the same
\* response, whatever the directory holds: status 401, success false, the
\* one message "Invalid username or password", nothing else.
C11_SigninMissIsUniform ==
    [][\A s \in SigninReqs :
          (SigninAnswers(s) /\ (UnknownUser(s) \/ WrongHash(s)))
              => resp'[s] = InvalidCredential]_vars

\* Over the same directory, one sign-in named an unknown user, the other
\* alice with a wrong hash: both hold the same response.
C11_Witness ==
    /\ db = InitialDirectory
    /\ pc["s1"] = "done" /\ pc["s2"] = "done"
    /\ body["s1"] = [username |-> "bob", final_hash |-> "h1"]
    /\ body["s2"] = [username |-> "alice", final_hash |-> "h2"]
    /\ UnknownUser("s1") /\ WrongHash("s2")
    /\ resp["s1"] = InvalidCredential
    /\ resp["s2"] = resp["s1"]

\* The deleteMany of deletion k answers (with a count, not an error).
DeleteAnswers(k) ==
    pc[k] = "deleteMany" /\ Answers(k) /\ resp'[k].status # 500

\* The records whose username is in the list of deletion k.
Existing(k) == {d \in db : d.username \in body[k].usernames.names}

NoUsersFound == Reply(404, FALSE, "No users found or deleted", "")

\* C12 as stated: a deletion over a non-empty list none of whose usernames
\* exists leaves the directory unchanged and completes with a non-error
\* outcome reporting 0 removed.
C12_RemoveOfAbsentSucceedsWithZero ==
    [][\A k \in DeleteReqs :
          (DeleteAnswers(k) /\ Existing(k) = {}) =>
              /\ db' = db
              /\ resp'[k].success
              /\ resp'[k].deletedCount = 0]_vars

\* C12: a deletion removes exactly the records whose username is in its
\* list and, when there is at least one, reports their number with success;
\* a username without a record does not count and raises nothing. A deletion
\* none of whose usernames exists leaves the directory unchanged, starts no
\* broadcast and is answered 404, success false, "No users found or deleted".
C12_RemoveReportsRemoved ==
    [][\A k \in DeleteReqs :
          DeleteAnswers(k) =>
              /\ db' = db \ Existing(k)
              /\ IF Existing(k) = {}
                 THEN /\ db' = db
                      /\ bc' = bc
                      /\ resp'[k] = NoUsersFound
                 ELSE resp'[k] = Deleted(Cardinality(Existing(k)))]_vars

\* A deletion of bob alone, who has no record, was answered: 404, and the
\* directory is the one the server started on.
C12_Witness ==
    /\ pc["k1"] = "done"
    /\ body["k1"].usernames = [array |-> TRUE, names |-> {"bob"}]
    /\ resp["k1"] = NoUsersFound
    /\ db = InitialDirectory
    /\ bc[<<"delete", "k1">>].st = "idle"

\* The step in which signup r reports success.
SignupSucceeds(r) == r \in Reqs /\ Answers(r) /\ resp'[r].success

\* C13: no step of a /signup or /signin handler other than the one in which a
\* signup reports success changes the directory, starts a broadcast or sends
\* an event: a signup turned down for a missing field, for a username already
\* present or by the unique index at insert time, and a sign-in, failed or
\* not, leave all three as they were. The step in which a signup reports
\* success starts the broadcast of that signup, and no other step starts it.
C13_FailedRequestsTriggerNothing ==
    [][/\ \A r \in Reqs \cup SigninReqs :
            (pc'[r] # pc[r] /\ ~SignupSucceeds(r)) =>
                (db' = db /\ bc' = bc /\ inbox' = inbox)
       /\ \A r \in Reqs :
            SignupSucceeds(r) <=>
                (bc[<<"signup", r>>].st = "idle" /\ bc'[<<"signup", r>>].st = "query")
      ]_vars

\* r1 and r2 raced for bob: one was created and its broadcast was started,
\* the other was rejected at insert time; a sign-in for bob with another hash
\* failed. The directory holds alice and one bob, and the only broadcast ever
\* started is the one of the signup that succeeded.
C13_Witness ==
    /\ \A r \in Reqs \cup {"s1"} : pc[r] = "done"
    /\ resp["r1"].success
    /\ resp["r2"] = Reply(500, FALSE, "Signup failed", E11000)
    /\ resp["s1"] = InvalidCredential
    /\ Cardinality(db) = 2
    /\ \A t \in Triggers : bc[t].st # "idle" <=> t = <<"signup", "r1">>

\* The broadcastUserCounts() calls made for a change of the directory.
MembershipTriggers == ({"signup"} \X Reqs) \cup ({"delete"} \X DeleteReqs)

\* The step in which the call of trigger t is made.
Starts(t) == bc[t].st = "idle" /\ bc'[t].st = "query"

\* The request of trigger t is the only one that has changed the directory.
OnlyChange(t) ==
    \A r \in Reqs \cup DeleteReqs : (pc[r] = "done" /\ resp[r].success) => r = t[2]

\* What a step does to the broadcasts of membership changes: a step that
\* changes the directory makes the call of the request that changed it, in
\* that step, so its count query is issued over the changed directory; the
\* query is answered with the number of records at that moment; the emission
\* appends one user_counts event with that number to the inbox of exactly the
\* Admitted connections, which is the current number of records when no
\* other request has changed the directory.
MembershipBroadcastStep ==
    /\ db' # db <=>
          \E t \in MembershipTriggers :
              Starts(t) /\ Answers(t[2]) /\ resp'[t[2]].success
    /\ \A t \in MembershipTriggers :
          (bc[t].st = "query" /\ bc'[t].st = "result") =>
              bc'[t].registered = Cardinality(db)
    /\ \A t \in MembershipTriggers :
          (bc[t].st = "result" /\ bc'[t].st = "emitted") =>
              /\ OnlyChange(t) => bc[t].registered = Cardinality(db)
              /\ \A c \in Conns :
                    IF phase[c] = "Admitted"
                    THEN /\ Len(inbox'[c]) = Len(inbox[c]) + 1
                         /\ SubSeq(inbox'[c], 1, Len(inbox[c])) = inbox[c]
                         /\ inbox'[c][Len(inbox'[c])].event = "user_counts"
                         /\ inbox'[c][Len(inbox'[c])].registered = bc[t].registered
                    ELSE inbox'[c] = inbox[c]

\* C14: every change of the directory - a signup that succeeds, a deletion
\* that removes at least one record - calls the broadcaster in the step that
\* applies it, the count is read after the change, and the call runs to its
\* end: unless the count query fails, every Admitted connection is sent a
\* user_counts event with the count read, which is the new number of records
\* when no other change intervened.
C14_MembershipChangeBroadcasts ==
    /\ [][MembershipBroadcastStep]_vars
    /\ \A t \in MembershipTriggers :
          (bc[t].st = "query") ~> (bc[t].st \in {"emitted", "failed"})

\* A was admitted and, before its own broadcast was answered, alice was
\* deleted: the one event A holds is the deletion's, with registered = 0.
C14_Witness ==
    /\ phase["A"] = "Admitted"
    /\ pc["k1"] = "done" /\ resp["k1"] = Deleted(1)
    /\ db = {}
    /\ bc[<<"delete", "k1">>].st = "emitted"
    /\ bc[<<"connect", "A">>].st = "query"
    /\ inbox["A"] = <<[event |-> "user_counts", registered |-> 0, online |-> 1]>>

\* No record carries the token of connection c.
Unrecorded(c) == \A d \in db : d.username # token[c]

\* What a step may do to a connection with respect to the directory: the gate
\* admits a pending connection that carries a token whether or not a record
\* matches it; a step that changes the directory changes no connection, no
\* registry entry and no inbox; a connection leaves Admitted only in the step
\* that closes its transport; an Admitted connection is in the registry, can
\* have its next event handled and is delivered the others' events, with or
\* without a record.
NeverRevalidatedStep ==
    /\ AdmissionStep
    /\ db' # db => UNCHANGED <<connVars, inbox, sends, timer>>
    /\ \A c \in Conns :
          (phase[c] = "Admitted" /\ phase'[c] # "Admitted") => (engine[c] /\ ~engine'[c])
    /\ \A c \in Conns :
          phase'[c] = "Admitted" =>
              /\ c \in sockets'
              /\ Len(sends') < MaxSends =>
                    (ENABLED Send(c, "send_message", "d1"))'
    /\ FanOutStep

\* C15: an Admitted connection is never checked against the directory: a
\* token without a record is admitted, the removal of the record of an
\* Admitted connection's token changes nothing of the registry, and the
\* connection stays Admitted, sending and receiving, until its transport
\* closes.
C15_NeverRevalidated == [][NeverRevalidatedStep]_vars

\* A and B carry the token alice and alice's record was deleted: both are
\* still Admitted, A was sent the count 0 of the emptied directory, and B
\* holds a message A sent.
C15_Witness ==
    /\ phase["A"] = "Admitted" /\ phase["B"] = "Admitted"
    /\ token["A"] = "alice" /\ token["B"] = "alice"
    /\ pc["k1"] = "done" /\ resp["k1"] = Deleted(1)
    /\ Unrecorded("A") /\ Unrecorded("B")
    /\ sockets = {"A", "B"}
    /\ \E i \in Received("A", {"user_counts"}) : inbox["A"][i].registered = 0
    /\ Len(sends) = 1 /\ sends[1].conn = "A"
    /\ \E i \in Received("B", MessageEvents) : inbox["B"][i] = Forwarded(sends[1])

\* Nothing is under way: no connection awaits the gate, no disconnect timer
\* is pending, no request is being handled, and every broadcast that was
\* triggered has emitted.
Quiescent ==
    /\ \A c \in Conns : phase[c] # "Pending" /\ timer[c].st # "armed"
    /\ \A r \in Requests : pc[r] \in {"idle", "done"}
    /\ \A t \in Triggers : bc[t].st \in {"idle", "emitted"}

\* The last user_counts event connection c was sent.
LastCounts(c) ==
    LET at == Received(c, {"user_counts"}) IN
    inbox[c][CHOOSE i \in at : \A j \in at : j <= i]

LastRegisteredIsCurrent ==
    \A c \in Admitted : LastCounts(c).registered = Cardinality(db)

LastOnlineIsAdmitted ==
    \A c \in Admitted : LastCounts(c).online = Cardinality(Admitted)

\* C16: once nothing is under way and every triggered broadcast has emitted,
\* the last user_counts event each Admitted connection was sent carries the
\* current number of records as registered and the current number of Admitted
\* connections as online, in whatever order the count queries were answered.
C16_LastCountsAreCurrent ==
    Quiescent =>
        /\ \A c \in Admitted : Received(c, {"user_counts"}) # {}
        /\ LastRegisteredIsCurrent
        /\ LastOnlineIsAdmitted

\* What a step may deliver: nothing to a Closed connection, something only to
\* a connection that is Admitted when the step is taken; the emission of a
\* broadcast appends one user_counts event to the inbox of each connection
\* Admitted at that moment and leaves every other inbox as it is.
DeliveryStep ==
    /\ \A c \in Conns : phase[c] = "Closed" => inbox'[c] = inbox[c]
    /\ \A c \in Conns : inbox'[c] # inbox[c] => phase[c] = "Admitted"
    /\ \A t \in Triggers :
          (bc[t].st = "result" /\ bc'[t].st = "emitted") =>
              \A c \in Conns :
                  IF phase[c] = "Admitted"
                  THEN /\ Len(inbox'[c]) = Len(inbox[c]) + 1
                       /\ inbox'[c][Len(inbox'[c])].event = "user_counts"
                  ELSE inbox'[c] = inbox[c]

\* C17: once a connection is Closed it is sent no further event, neither a
\* message nor a count: the delayed broadcast of its own disconnect and a
\* broadcast whose count query was pending when it closed go to the
\* connections Admitted when they emit, and to no other.
C17_ClosedReceivesNothing == [][DeliveryStep]_vars

\* A was admitted and closed before its connect broadcast emitted; that
\* broadcast and the delayed one of its disconnect have both emitted since: B,
\* whose own broadcast is still unanswered, holds both events, A holds none.
C17_Witness ==
    /\ phase["A"] = "Closed" /\ ~Falsy(token["A"])
    /\ bc[<<"connect", "A">>].st = "emitted"
    /\ bc[<<"disconnect", "A">>].st = "emitted"
    /\ inbox["A"] = <<>>
    /\ phase["B"] = "Admitted"
    /\ bc[<<"connect", "B">>].st = "query"
    /\ Len(inbox["B"]) = 2
    /\ \A i \in 1..2 : inbox["B"][i].event = "user_counts"
====
